---- MODULE Spec2Model ----
(***************************************************************************)
(* Model of trajdiff/multiagent.py (the bouncing-sprite trajectory         *)
(* generator and its collision counter) and of the wandb handling of       *)
(* trajdiff/diffusion/trainer.py (Trainer1D).                              *)
(*                                                                         *)
(* Positions and speeds are Python floats in the source.  Here they are    *)
(* fixed-point integers: a value v of the program is the integer v*Scale.  *)
(* Integer inputs (placements, initial speeds) are exact; the repulsion    *)
(* term is rounded to 1/Scale.                                             *)
(***************************************************************************)
EXTENDS Integers, Sequences, FiniteSets, TLC

VARIABLES
    rng,          \* state of the global `random` generator: [kind, n]
    tape,         \* the values an unseeded generator is going to produce
    caller,       \* who called generate_trajectory: "main" | "batch" | "none"
    args,         \* [seed, n_trajs, n_agents, traj_len] of the running call
    samples,      \* generate_multiple_trajs: samples
    sprites,      \* generate_trajectory: sprites
    trajectories, \* generate_trajectory: trajectories
    i, j,         \* generate_trajectory: loop indices
    cand,         \* generate_trajectory: the locals x, y, x_speed, y_speed
    pc,           \* position in generate_multiple_trajs / generate_trajectory
    nupd,         \* history: number of update() calls made on each sprite
    hist,         \* history: hist[k][m+1] is sprite k's position after m updates
    prev,         \* history: what the previous call with these args returned,
                  \*          and how many draws were made before it was repeated
    consumed,     \* history: draws other code made since the last call
    c_in,         \* calc_collisions: [trajectories, radii]
    c_out,        \* calc_collisions: [state, value]: pending, returned or raised
    tr            \* Trainer1D: the fields and position of one trainer

genVars == <<rng, tape, caller, args, samples, sprites, trajectories, i, j, cand,
             pc, nupd, hist, prev, consumed>>
vars == <<rng, tape, caller, args, samples, sprites, trajectories, i, j, cand,
          pc, nupd, hist, prev, consumed, c_in, c_out, tr>>

---------------------------------------------------------------------------
(* Program constants of multiagent.py *)
SCREEN_WIDTH == 800
SCREEN_HIGHT == 800
MAX_RADIUS == 20
MAX_SPEED == 2
start_buffer == 10
RepulsionRange == 50
ForceDivisor == 1000
ColorMax == 255

(* Bounds of the model *)
Scale == 100
MaxTrajLen == 3
MaxAgents == 3
MaxTrajs == 2
MaxSeed == 2
MaxPrior == 1
MaxConsume == 2
MaxCalcAgents == 3
MaxCalcSteps == 2
MaxSteps == 3
MaxEvery == 2
MaxAccum == 2

Abs(v) == IF v < 0 THEN -v ELSE v
Max2(a, b) == IF a >= b THEN a ELSE b
Min2(a, b) == IF a <= b THEN a ELSE b

\* a / b for b > 0, rounded to the nearest integer
DivRound(a, b) == (2 * a + b) \div (2 * b)

RECURSIVE SqrtSearch(_, _, _)
SqrtSearch(n, lo, hi) ==
    IF lo >= hi THEN lo
    ELSE LET mid == (lo + hi + 1) \div 2
         IN  IF mid * mid <= n THEN SqrtSearch(n, mid, hi)
             ELSE SqrtSearch(n, lo, mid - 1)

\* math.sqrt(dx**2 + dy**2) in fixed point.  The program uses the distance only
\* when it is below RepulsionRange, so anything at least that far apart is
\* reported as RepulsionRange (this also keeps the squares within TLC's integers).
Distance(dx, dy) ==
    LET far == RepulsionRange * Scale
    IN  IF Abs(dx) >= far \/ Abs(dy) >= far THEN far
        ELSE Min2(far, SqrtSearch(dx * dx + dy * dy, 0, 2 * far))

\* math.exp(distance / 1000), fixed point, for 0 <= distance < RepulsionRange:
\* 1 + t + t^2/2 with t = distance / 1000 (the next term is below 3e-5).
Exp(distance) ==
    Scale + DivRound(distance, ForceDivisor)
          + DivRound(distance * distance, 2 * ForceDivisor * ForceDivisor * Scale)

\* multiagent.py:53-56, the clamp of x_speed
ClampSpeed(v) ==
    IF v < 0 THEN Max2(-(MAX_SPEED * Scale), v)
    ELSE Min2(MAX_SPEED * Scale, v)

\* multiagent.py:39-56, the body of the loop over the other sprites
Repulse(self, sprite) ==
    LET dx == sprite.x - self.x
        dy == sprite.y - self.y
        d0 == Distance(dx, dy)
        distance == IF d0 = 0 THEN 1 ELSE d0
    IN  IF distance < RepulsionRange * Scale
        THEN LET force == Exp(distance)
             IN  [self EXCEPT
                    !.x_speed = ClampSpeed(self.x_speed - DivRound(force * dx, distance)),
                    !.y_speed = self.y_speed - DivRound(force * dy, distance)]
        ELSE self

\* multiagent.py:38-39, `for sprite in sprites: if sprite != self`
RECURSIVE RepulseAll(_, _, _, _)
RepulseAll(self, k, all, m) ==
    IF m > Len(all) THEN self
    ELSE RepulseAll(IF m = k THEN self ELSE Repulse(self, all[m]), k, all, m + 1)

\* multiagent.py:28-35, the move and the bounce off the walls
Bounce(self) ==
    LET x == self.x + self.x_speed
        y == self.y + self.y_speed
        r == self.radius
    IN  [self EXCEPT
           !.x = x,
           !.y = y,
           !.x_speed = IF x + r > SCREEN_WIDTH * Scale \/ x - r < 0
                       THEN -self.x_speed ELSE self.x_speed,
           !.y_speed = IF y + r > SCREEN_HIGHT * Scale \/ y - r < 0
                       THEN -self.y_speed ELSE self.y_speed]

\* Sprite.update(self, sprites) for self = all[k]
update(k, all) == RepulseAll(Bounce(all[k]), k, all, 1)

---------------------------------------------------------------------------
(* The global generator of the `random` module.  A seeded generator is a   *)
(* deterministic function of its state (here a 16-bit linear congruential  *)
(* generator stands for the Mersenne Twister); a generator nobody seeded   *)
(* starts from OS entropy and produces values the program cannot predict:  *)
(* `tape` holds them.                                                      *)

NextState(s) == (25173 * s + 13849) % 65536

\* a generate_multiple_trajs that does not reseed: the generator stays as it is
SeedStateKept(seed) == rng

\* random.seed(seed)
SeedState(seed) == [kind |-> "seeded", n |-> (7919 * seed + 1) % 65536]

\* random.randint(a, b) in generator state r: the value and the next state
RandInt(r, a, b) ==
    IF r.kind = "seeded"
    THEN LET s == NextState(r.n)
         IN  [v |-> a + ((s \div 16) % (b - a + 1)), r |-> [r EXCEPT !.n = s]]
    ELSE [v |-> a + (tape.draws[r.n + 1] % (b - a + 1)), r |-> [r EXCEPT !.n = r.n + 1]]

---------------------------------------------------------------------------
(* generate_trajectory *)

\* multiagent.py:78-79: every iteration overwrites in_collision
RECURSIVE CollisionLoop(_, _, _, _, _)
CollisionLoop(in_collision, all, m, x, y) ==
    IF m > Len(all) THEN in_collision
    ELSE CollisionLoop(all[m].x = x * Scale \/ all[m].y = y * Scale, all, m + 1, x, y)

\* multiagent.py:75-82: one iteration of `while in_collision`
PlacePosition ==
    /\ pc = "place"
    /\ i < args.n_agents
    /\ LET dx == RandInt(rng, 0 + MAX_RADIUS, SCREEN_WIDTH - MAX_RADIUS)
           dy == RandInt(dx.r, 0 + MAX_RADIUS, SCREEN_HIGHT - MAX_RADIUS)
           looped == CollisionLoop(TRUE, sprites, 1, dx.v, dy.v)
           in_collision == IF Len(sprites) = 0 THEN FALSE ELSE looped
       IN  /\ rng' = dy.r
           /\ cand' = [cand EXCEPT !.x = dx.v, !.y = dy.v]
           /\ pc' = IF in_collision THEN "place" ELSE "speed"
    /\ UNCHANGED <<tape, caller, args, samples, sprites, trajectories, i, j,
                   nupd, hist, prev, consumed, c_in, c_out, tr>>

\* multiagent.py:87-90: one iteration of `while zero_speed`
PlaceSpeed ==
    /\ pc = "speed"
    /\ LET dx == RandInt(rng, -MAX_SPEED, MAX_SPEED)
           dy == RandInt(dx.r, -MAX_SPEED, MAX_SPEED)
           zero_speed == dx.v = 0 \/ dy.v = 0
       IN  /\ rng' = dy.r
           /\ cand' = [cand EXCEPT !.x_speed = dx.v, !.y_speed = dy.v]
           /\ pc' = IF zero_speed THEN "speed" ELSE "color"
    /\ UNCHANGED <<tape, caller, args, samples, sprites, trajectories, i, j,
                   nupd, hist, prev, consumed, c_in, c_out, tr>>

\* multiagent.py:84, 92-94: the colour, Sprite(...) and sprites.append
AppendSprite ==
    /\ pc = "color"
    /\ LET r == RandInt(rng, 0, ColorMax)
           g == RandInt(r.r, 0, ColorMax)
           b == RandInt(g.r, 0, ColorMax)
           sprite == [x |-> cand.x * Scale, y |-> cand.y * Scale,
                      radius |-> MAX_RADIUS * Scale,
                      x_speed |-> cand.x_speed * Scale,
                      y_speed |-> cand.y_speed * Scale,
                      color |-> <<r.v, g.v, b.v>>]
       IN  /\ rng' = b.r
           /\ sprites' = Append(sprites, sprite)
    /\ i' = i + 1
    /\ pc' = "place"
    /\ UNCHANGED <<tape, caller, args, samples, trajectories, j, cand,
                   nupd, hist, prev, consumed, c_in, c_out, tr>>

\* multiagent.py:72, 96-101: the placement loop ends, the tick loop starts
BeginTicks ==
    /\ pc = "place"
    /\ i = args.n_agents
    /\ trajectories' = [k \in 1..args.n_agents |-> <<>>]
    /\ i' = 0
    /\ j' = 1
    /\ nupd' = [k \in 1..args.n_agents |-> 0]
    /\ hist' = [k \in 1..args.n_agents |-> <<<<sprites[k].x, sprites[k].y>>>>]
    /\ pc' = "tick"
    /\ UNCHANGED <<rng, tape, caller, args, samples, sprites, cand,
                   prev, consumed, c_in, c_out, tr>>

\* a warm-up that is one tick too long
RecordLate(trajs, tick, k, sprite) ==
    IF tick > start_buffer
    THEN [trajs EXCEPT ![k] = Append(@, <<sprite.x, sprite.y>>)]
    ELSE trajs

\* multiagent.py:103-104: trajectories[j].append((sprite.x, sprite.y)) once the
\* warm-up is over
Record(trajs, tick, k, sprite) ==
    IF tick >= start_buffer
    THEN [trajs EXCEPT ![k] = Append(@, <<sprite.x, sprite.y>>)]
    ELSE trajs

\* an inner loop that updates the sprite before it records its position
TickUpdateFirst ==
    /\ pc = "tick"
    /\ i < args.traj_len + start_buffer
    /\ LET moved == update(j, sprites)
       IN  /\ trajectories' = Record(trajectories, i, j, moved)
           /\ sprites' = [sprites EXCEPT ![j] = moved]
           /\ nupd' = [nupd EXCEPT ![j] = @ + 1]
           /\ hist' = [hist EXCEPT ![j] = Append(@, <<moved.x, moved.y>>)]
    /\ j' = IF j = args.n_agents THEN 1 ELSE j + 1
    /\ i' = IF j = args.n_agents THEN i + 1 ELSE i
    /\ UNCHANGED <<rng, tape, caller, args, samples, cand, pc,
                   prev, consumed, c_in, c_out, tr>>

\* multiagent.py:101-105: one iteration of the inner loop, for tick i and sprite j
Tick ==
    /\ pc = "tick"
    /\ i < args.traj_len + start_buffer
    /\ LET moved == update(j, sprites)
       IN  /\ trajectories' = Record(trajectories, i, j, sprites[j])
           /\ sprites' = [sprites EXCEPT ![j] = moved]
           /\ nupd' = [nupd EXCEPT ![j] = @ + 1]
           /\ hist' = [hist EXCEPT ![j] = Append(@, <<moved.x, moved.y>>)]
    /\ j' = IF j = args.n_agents THEN 1 ELSE j + 1
    /\ i' = IF j = args.n_agents THEN i + 1 ELSE i
    /\ UNCHANGED <<rng, tape, caller, args, samples, cand, pc,
                   prev, consumed, c_in, c_out, tr>>

\* multiagent.py:107 and 162-165: generate_trajectory returns to __main__
ReturnToMain ==
    /\ pc = "tick"
    /\ i = args.traj_len + start_buffer
    /\ caller = "main"
    /\ pc' = "done"
    /\ UNCHANGED <<rng, tape, caller, args, samples, sprites, trajectories, i, j,
                   cand, nupd, hist, prev, consumed, c_in, c_out, tr>>

---------------------------------------------------------------------------
(* __main__: generate_trajectory on a generator nobody seeded *)

\* the draws that place one body at (x, y) with speed (vx, vy): x, y, x_speed,
\* y_speed and three colour components, each as an offset into randint's range
Body(x, y, vx, vy) ==
    <<x - MAX_RADIUS, y - MAX_RADIUS, vx + MAX_SPEED, vy + MAX_SPEED, 0, 0, 0>>

\* two bodies 30 apart
PairNear ==
    [agents |-> 2,
     draws |-> Body(100, 100, -1, -2) \o Body(101, 130, 1, 2)]

\* a rejected position (same x as the last body), a rejected zero speed, and a
\* third body on the x of the first
ThreeBodies ==
    [agents |-> 3,
     draws |-> Body(100, 100, 1, 1)
               \o <<100 - MAX_RADIUS, 250 - MAX_RADIUS>>
               \o <<200 - MAX_RADIUS, 200 - MAX_RADIUS>>
               \o <<0 + MAX_SPEED, 1 + MAX_SPEED>>
               \o <<-1 + MAX_SPEED, 1 + MAX_SPEED, 0, 0, 0>>
               \o Body(100, 300, 1, -1)]

\* nine bodies in a diagonal column under the upper wall, all x and all y distinct
Column ==
    [agents |-> 9,
     draws |-> Body(400, 779, -1, 2) \o Body(401, 778, 1, 2) \o Body(402, 777, -1, 2)
               \o Body(403, 776, 1, 2) \o Body(404, 775, -1, 2) \o Body(405, 774, 1, 2)
               \o Body(406, 773, -1, 2) \o Body(407, 772, 1, 2) \o Body(408, 771, -1, 2)]

\* two bodies that never come within RepulsionRange of each other or of a wall
Crossing ==
    [agents |-> 2,
     draws |-> Body(100, 100, 1, 1) \o Body(120, 300, -1, 1)]

Tapes == {PairNear, ThreeBodies, Column, Crossing}

NoArgs == [seed |-> 0, n_trajs |-> 0, n_agents |-> 0, traj_len |-> 0]
NoCand == [x |-> 0, y |-> 0, x_speed |-> 0, y_speed |-> 0]
NoPrev == [has |-> FALSE, samples |-> <<>>, gap |-> 0]
NoTape == [agents |-> 0, draws |-> <<>>]

\* multiagent.py:155-162: parse the arguments, call generate_trajectory
Main ==
    /\ pc = "idle"
    /\ \E n_agents \in 1..tape.agents, traj_len \in 1..MaxTrajLen :
          args' = [NoArgs EXCEPT !.n_agents = n_agents, !.traj_len = traj_len]
    /\ caller' = "main"
    /\ sprites' = <<>>
    /\ i' = 0
    /\ pc' = "place"
    /\ UNCHANGED <<rng, tape, samples, trajectories, j, cand,
                   nupd, hist, prev, consumed, c_in, c_out, tr>>

---------------------------------------------------------------------------
(* generate_multiple_trajs *)

\* multiagent.py:59-62: random.seed(seed); samples = [].  A second call repeats
\* the arguments of the first, whose result prev keeps.
Call ==
    /\ pc \in {"idle", "done"}
    /\ \E seed \in 0..MaxSeed, n_trajs \in 1..MaxTrajs,
          n_agents \in 1..MaxAgents, traj_len \in 1..MaxTrajLen :
          LET a == [seed |-> seed, n_trajs |-> n_trajs,
                    n_agents |-> n_agents, traj_len |-> traj_len]
          IN  /\ pc = "done" => a = args
              /\ args' = a
              /\ rng' = SeedState(seed)
    /\ prev' = IF pc = "done"
               THEN [has |-> TRUE, samples |-> samples, gap |-> consumed]
               ELSE prev
    /\ caller' = "batch"
    /\ samples' = <<>>
    /\ consumed' = 0
    /\ pc' = "loop"
    /\ UNCHANGED <<tape, sprites, trajectories, i, j, cand, nupd, hist,
                   c_in, c_out, tr>>

\* multiagent.py:63-64 and 71: the next generate_trajectory(n_agents, traj_len)
LoopEnter ==
    /\ pc = "loop"
    /\ Len(samples) < args.n_trajs
    /\ sprites' = <<>>
    /\ i' = 0
    /\ pc' = "place"
    /\ UNCHANGED <<rng, tape, caller, args, samples, trajectories, j, cand,
                   nupd, hist, prev, consumed, c_in, c_out, tr>>

\* multiagent.py:107 and 64-66: generate_trajectory returns, the sample is appended
ReturnToBatch ==
    /\ pc = "tick"
    /\ i = args.traj_len + start_buffer
    /\ caller = "batch"
    /\ samples' = Append(samples,
                         [trajectories |-> trajectories,
                          radii |-> [k \in 1..Len(sprites) |-> sprites[k].radius]])
    /\ pc' = "loop"
    /\ UNCHANGED <<rng, tape, caller, args, sprites, trajectories, i, j, cand,
                   nupd, hist, prev, consumed, c_in, c_out, tr>>

\* multiagent.py:68: return samples
LoopExit ==
    /\ pc = "loop"
    /\ Len(samples) = args.n_trajs
    /\ pc' = "done"
    /\ UNCHANGED <<rng, tape, caller, args, samples, sprites, trajectories, i, j,
                   cand, nupd, hist, prev, consumed, c_in, c_out, tr>>

\* other code of the process draws from the global generator between two calls
Consume ==
    /\ pc \in {"idle", "done"}
    /\ consumed < MaxConsume
    /\ rng' = RandInt(rng, 0, 1).r
    /\ consumed' = consumed + 1
    /\ UNCHANGED <<tape, caller, args, samples, sprites, trajectories, i, j, cand,
                   pc, nupd, hist, prev, c_in, c_out, tr>>

---------------------------------------------------------------------------
NoCalc == [trajectories |-> <<>>, radii |-> <<>>]
Pending == [state |-> "pending", value |-> 0]
NoTrainer == [pc |-> "none"]

GenIdle ==
    /\ caller = "none"
    /\ args = NoArgs
    /\ samples = <<>>
    /\ sprites = <<>>
    /\ trajectories = <<>>
    /\ i = 0
    /\ j = 0
    /\ cand = NoCand
    /\ pc = "idle"
    /\ nupd = <<>>
    /\ hist = <<>>
    /\ prev = NoPrev
    /\ consumed = 0

InitMain ==
    /\ tape \in Tapes
    /\ rng = [kind |-> "entropy", n |-> 0]
    /\ GenIdle
    /\ c_in = NoCalc
    /\ c_out = Pending
    /\ tr = NoTrainer

NextMain ==
    \/ Main
    \/ PlacePosition
    \/ PlaceSpeed
    \/ AppendSprite
    \/ BeginTicks
    \/ Tick
    \/ ReturnToMain

SpecMain == InitMain /\ [][NextMain]_vars

InitBatch ==
    /\ tape = NoTape
    /\ rng \in {[kind |-> "seeded", n |-> n] : n \in 0..MaxPrior}
    /\ GenIdle
    /\ c_in = NoCalc
    /\ c_out = Pending
    /\ tr = NoTrainer

NextBatch ==
    \/ Call
    \/ Consume
    \/ LoopEnter
    \/ PlacePosition
    \/ PlaceSpeed
    \/ AppendSprite
    \/ BeginTicks
    \/ Tick
    \/ ReturnToBatch
    \/ LoopExit

SpecBatch == InitBatch /\ [][NextBatch]_vars

---------------------------------------------------------------------------
(* Claims about Sprite.update and generate_trajectory, on SpecMain *)

Ticking == pc \in {"tick", "done"}

\* C1: after every call of Sprite.update, every body has |x_speed| <= MAX_SPEED
\* and |y_speed| <= MAX_SPEED.
C1_VelocityBound ==
    Ticking =>
        \A k \in 1..Len(sprites) :
            nupd[k] >= 1 =>
                /\ Abs(sprites[k].x_speed) <= MAX_SPEED * Scale
                /\ Abs(sprites[k].y_speed) <= MAX_SPEED * Scale

\* C2: a candidate position is accepted only if it shares neither x nor y with
\* any body placed before, so when the placement loop has finished every two
\* distinct bodies differ in x and differ in y.
C2_PlacementDistinct ==
    /\ pc = "speed" =>
          \A k \in 1..Len(sprites) :
              sprites[k].x # cand.x * Scale /\ sprites[k].y # cand.y * Scale
    /\ (pc = "tick" /\ i = 0 /\ j = 1) =>
          \A a, b \in 1..Len(sprites) :
              a # b => sprites[a].x # sprites[b].x /\ sprites[a].y # sprites[b].y

\* C3: at every tick every body's centre is within MAX_SPEED of the field:
\* -MAX_SPEED <= x <= SCREEN_WIDTH + MAX_SPEED, and the same for y.
C3_Containment ==
    Ticking =>
        \A k \in 1..Len(sprites) :
            /\ -(MAX_SPEED * Scale) <= sprites[k].x
            /\ sprites[k].x <= (SCREEN_WIDTH + MAX_SPEED) * Scale
            /\ -(MAX_SPEED * Scale) <= sprites[k].y
            /\ sprites[k].y <= (SCREEN_HIGHT + MAX_SPEED) * Scale

\* C4: the first recorded positions of two distinct agents share neither an
\* x-coordinate nor a y-coordinate.
C4_NoInitialCollision ==
    pc = "done" =>
        \A a, b \in 1..Len(trajectories) :
            a # b =>
                /\ trajectories[a][1][1] # trajectories[b][1][1]
                /\ trajectories[a][1][2] # trajectories[b][1][2]

---------------------------------------------------------------------------
(* Claims about generate_multiple_trajs and generate_trajectory, on SpecBatch *)

\* C7: generate_multiple_trajs returns exactly n_trajs samples, each with
\* n_agents trajectories and n_agents radii, every trajectory of traj_len entries.
C7_Lengths ==
    pc = "done" =>
        /\ Len(samples) = args.n_trajs
        /\ \A s \in 1..Len(samples) :
              /\ Len(samples[s].trajectories) = args.n_agents
              /\ Len(samples[s].radii) = args.n_agents
              /\ \A k \in 1..Len(samples[s].trajectories) :
                    Len(samples[s].trajectories[k]) = args.traj_len

C7_Witness ==
    /\ pc = "done"
    /\ args.n_trajs >= 2
    /\ args.n_agents >= 2
    /\ args.traj_len >= 2
    /\ Len(samples) = args.n_trajs

\* C8: a run of generate_multiple_trajs with the same (seed, n_trajs, n_agents,
\* traj_len) as an earlier run returns the same samples, whatever was drawn from
\* the global generator before either run.
C8_Determinism ==
    (pc = "done" /\ prev.has) => samples = prev.samples

C8_Witness ==
    /\ pc = "done"
    /\ prev.has
    /\ prev.gap >= 1
    /\ Len(samples) >= 2
    /\ samples = prev.samples

\* C9: nothing is recorded before a body has been updated start_buffer times;
\* the m-th recorded position of a body is its position after start_buffer+m-1
\* of its own updates; when the tick loop ends every body has been updated
\* traj_len + start_buffer times (so the position after the last update is not
\* recorded).
C9_WarmUp ==
    pc = "tick" =>
        \A k \in 1..args.n_agents :
            /\ Len(trajectories[k]) = Max2(0, nupd[k] - start_buffer)
            /\ \A m \in 1..Len(trajectories[k]) :
                  trajectories[k][m] = hist[k][start_buffer + m]
            /\ i = args.traj_len + start_buffer =>
                  /\ nupd[k] = args.traj_len + start_buffer
                  /\ Len(trajectories[k]) = args.traj_len
                  /\ Len(hist[k]) = args.traj_len + start_buffer + 1

C9_Witness ==
    /\ pc = "tick"
    /\ i = args.traj_len + start_buffer
    /\ args.traj_len >= 2
    /\ args.n_agents >= 2
    /\ \A k \in 1..args.n_agents :
          /\ Len(trajectories[k]) = args.traj_len
          /\ trajectories[k][1] = hist[k][start_buffer + 1]
          /\ trajectories[k][1] # hist[k][1]

---------------------------------------------------------------------------
(* calc_collisions *)

\* a comparison that also counts two bodies that just touch
in_collision_touching(x1, y1, x2, y2, r1, r2) ==
    (x1 - x2) * (x1 - x2) + (y1 - y2) * (y1 - y2) <= (r1 + r2) * (r1 + r2)

\* multiagent.py:132-133
in_collision(x1, y1, x2, y2, r1, r2) ==
    (x1 - x2) * (x1 - x2) + (y1 - y2) * (y1 - y2) < (r1 + r2) * (r1 + r2)

\* multiagent.py:145-150: for agent2 in range(agent+1, n_agents)
RECURSIVE Agent2Loop(_, _, _, _, _)
Agent2Loop(trajs, radii, step, agent, agent2) ==
    IF agent2 > Len(radii) THEN 0
    ELSE LET p1 == trajs[agent][step]
             p2 == trajs[agent2][step]
             hit == in_collision(p1[1], p1[2], p2[1], p2[2], radii[agent], radii[agent2])
         IN  (IF hit THEN 1 ELSE 0) + Agent2Loop(trajs, radii, step, agent, agent2 + 1)

\* multiagent.py:142-145: for agent in range(n_agents)
RECURSIVE AgentLoop(_, _, _, _)
AgentLoop(trajs, radii, step, agent) ==
    IF agent > Len(radii) THEN 0
    ELSE Agent2Loop(trajs, radii, step, agent, agent + 1)
         + AgentLoop(trajs, radii, step, agent + 1)

\* multiagent.py:141: for step in range(traj_steps)
RECURSIVE StepLoop(_, _, _, _)
StepLoop(trajs, radii, step, traj_steps) ==
    IF step > traj_steps THEN 0
    ELSE AgentLoop(trajs, radii, step, 1) + StepLoop(trajs, radii, step + 1, traj_steps)

\* multiagent.py:136-152; trajectories[0] raises IndexError on an empty list
calc_collisions(trajs, radii) ==
    IF Len(trajs) = 0
    THEN [state |-> "raised", value |-> 0]
    ELSE [state |-> "returned", value |-> StepLoop(trajs, radii, 1, Len(trajs[1]))]

\* centres and radii the inputs are drawn from: two centres 5 apart, and radii
\* whose sums are 4, 5 and 6
Points == {<<0, 0>>, <<3, 4>>}
Radii == {2, 3}

\* the trajectory sets of n agents and equal length steps, one radius per agent
CalcInputs(n, steps) ==
    [trajectories : [1..n -> [1..steps -> Points]], radii : [1..n -> Radii]]

CalcCollisions ==
    /\ c_out.state = "pending"
    /\ c_out' = calc_collisions(c_in.trajectories, c_in.radii)
    /\ UNCHANGED <<c_in, tr>>
    /\ UNCHANGED genVars

InitCalc ==
    /\ \E n \in 0..MaxCalcAgents, steps \in 0..MaxCalcSteps : c_in \in CalcInputs(n, steps)
    /\ c_out = Pending
    /\ tape = NoTape
    /\ rng = [kind |-> "entropy", n |-> 0]
    /\ GenIdle
    /\ tr = NoTrainer

NextCalc == CalcCollisions

SpecCalc == InitCalc /\ [][NextCalc]_vars

\* C5: on an empty trajectory set and on a single-agent trajectory set
\* calc_collisions returns 0 rather than failing.
C5_EmptyOrSingle ==
    (c_out.state # "pending" /\ Len(c_in.trajectories) <= 1) =>
        (c_out.state = "returned" /\ c_out.value = 0)

\* the whole part of the Euclidean distance between p and q; for a whole number
\* s the distance is strictly below s exactly when its whole part is
WholeDistance(p, q) ==
    LET dx == Abs(p[1] - q[1])
        dy == Abs(p[2] - q[2])
    IN  SqrtSearch(dx * dx + dy * dy, 0, dx + dy)

\* the triples (tick, i, j), i < j, whose centres are at a Euclidean distance
\* strictly below radii[i] + radii[j]
CloseTriples ==
    LET n == Len(c_in.trajectories)
        steps == IF n = 0 THEN 0 ELSE Len(c_in.trajectories[1])
    IN  {t \in (1..steps) \X (1..n) \X (1..n) :
            /\ t[2] < t[3]
            /\ WholeDistance(c_in.trajectories[t[2]][t[1]], c_in.trajectories[t[3]][t[1]])
                   < c_in.radii[t[2]] + c_in.radii[t[3]]}

\* C6: on a trajectory set with at least one agent calc_collisions returns the
\* number of triples (tick, i, j), i < j, with the distance between the centres
\* of i and j at that tick strictly below radii[i] + radii[j].
C6_Count ==
    (c_out.state # "pending" /\ Len(c_in.trajectories) >= 1) =>
        (c_out.state = "returned" /\ c_out.value = Cardinality(CloseTriples))

C6_Witness ==
    /\ c_out.state = "returned"
    /\ Len(c_in.trajectories) >= 3
    /\ Len(c_in.trajectories[1]) >= 2
    /\ c_out.value >= 2
    /\ c_out.value < Cardinality({t \in (1..2) \X (1..3) \X (1..3) : t[2] < t[3]})
    /\ \E a, b \in 1..Len(c_in.radii) :
          /\ a < b
          /\ c_in.trajectories[a][1] # c_in.trajectories[b][1]
          /\ c_in.radii[a] + c_in.radii[b] = 5

---------------------------------------------------------------------------
(* Trainer1D: what train() and save() do with self.run.  The model, the     *)
(* optimizer, the EMA and the plots are calls into libraries and carry no   *)
(* state of their own here.                                                 *)

\* trainer.py:64-74: the trainer __init__ leaves behind; self.run exists only
\* when debug_mode is off
Trainer1D(debug_mode, train_num_steps, save_and_sample_every, gradient_accumulate_every) ==
    [pc |-> "ready",
     debug_mode |-> debug_mode,
     has_run |-> ~debug_mode,
     step |-> 0,
     train_num_steps |-> train_num_steps,
     save_and_sample_every |-> save_and_sample_every,
     gradient_accumulate_every |-> gradient_accumulate_every,
     acc |-> 0,
     saved |-> <<>>,
     artifacts |-> <<>>,
     logged |-> 0]

\* trainer.py:76-91: save(milestone) of trainer t; a use of self.run on a trainer
\* without one raises AttributeError
save(t, milestone) ==
    LET written == [t EXCEPT !.saved = Append(@, milestone)]
    IN  IF ~t.debug_mode
        THEN IF t.has_run
             THEN [written EXCEPT !.artifacts = Append(@, milestone)]
             ELSE [written EXCEPT !.pc = "raised"]
        ELSE written

\* trainer.py:93-99: load(checkpoint_path) sets self.step from the checkpoint
Load ==
    /\ tr.pc = "ready"
    /\ \E step \in 0..MaxSteps : tr' = [tr EXCEPT !.step = step, !.pc = "loaded"]
    /\ UNCHANGED <<c_in, c_out>>
    /\ UNCHANGED genVars

\* trainer.py:101-112: train() fetches the test batch and opens the progress bar
TrainBegin ==
    /\ tr.pc \in {"ready", "loaded"}
    /\ tr' = [tr EXCEPT !.pc = "while"]
    /\ UNCHANGED <<c_in, c_out>>
    /\ UNCHANGED genVars

\* trainer.py:114-116: while self.step < self.train_num_steps: total_loss = 0.0
WhileEnter ==
    /\ tr.pc = "while"
    /\ tr.step < tr.train_num_steps
    /\ tr' = [tr EXCEPT !.pc = "accumulate", !.acc = 0]
    /\ UNCHANGED <<c_in, c_out>>
    /\ UNCHANGED genVars

\* trainer.py:118-126: one iteration of the gradient accumulation loop
Accumulate ==
    /\ tr.pc = "accumulate"
    /\ tr.acc < tr.gradient_accumulate_every
    /\ tr' = [tr EXCEPT !.acc = @ + 1]
    /\ UNCHANGED <<c_in, c_out>>
    /\ UNCHANGED genVars

\* trainer.py:128-130: clip, set the description, self.run.log({"loss": ...})
LogLoss ==
    /\ tr.pc = "accumulate"
    /\ tr.acc = tr.gradient_accumulate_every
    /\ tr' = IF tr.has_run
             THEN [tr EXCEPT !.logged = @ + 1, !.pc = "step"]
             ELSE [tr EXCEPT !.pc = "raised"]
    /\ UNCHANGED <<c_in, c_out>>
    /\ UNCHANGED genVars

\* trainer.py:132-162: the optimizer step, self.step += 1, the EMA update and, every
\* save_and_sample_every steps, the samples and save(milestone)
OptStep ==
    /\ tr.pc = "step"
    /\ LET stepped == [tr EXCEPT !.step = @ + 1, !.pc = "while"]
       IN  tr' = IF stepped.step # 0 /\ stepped.step % stepped.save_and_sample_every = 0
                 THEN save(stepped, [name |-> "milestone",
                                     n |-> stepped.step \div stepped.save_and_sample_every])
                 ELSE stepped
    /\ UNCHANGED <<c_in, c_out>>
    /\ UNCHANGED genVars

\* trainer.py:114 and 164-168: the loop ends, the ground truth is plotted,
\* save("finished")
Finish ==
    /\ tr.pc = "while"
    /\ tr.step >= tr.train_num_steps
    /\ LET done == save(tr, [name |-> "finished", n |-> 0])
       IN  tr' = IF done.pc = "raised" THEN done ELSE [done EXCEPT !.pc = "finished"]
    /\ UNCHANGED <<c_in, c_out>>
    /\ UNCHANGED genVars

InitTrain ==
    /\ tr \in {Trainer1D(d, n, e, g) :
                 d \in BOOLEAN, n \in 0..MaxSteps, e \in 1..MaxEvery, g \in 1..MaxAccum}
    /\ c_in = NoCalc
    /\ c_out = Pending
    /\ tape = NoTape
    /\ rng = [kind |-> "entropy", n |-> 0]
    /\ GenIdle

NextTrain ==
    \/ Load
    \/ TrainBegin
    \/ WhileEnter
    \/ Accumulate
    \/ LogLoss
    \/ OptStep
    \/ Finish

SpecTrain == InitTrain /\ [][NextTrain]_vars

\* C10: a trainer constructed with debug_mode=True never depends on a wandb run:
\* no operation raises for want of self.run, and once train() has left its loop
\* self.step has reached train_num_steps and save('finished') has been made.
C10_DebugNeedsNoRun ==
    tr.debug_mode =>
        /\ ~tr.has_run
        /\ tr.pc # "raised"
        /\ Len(tr.artifacts) = 0
        /\ tr.pc = "finished" =>
              /\ tr.step >= tr.train_num_steps
              /\ tr.saved[Len(tr.saved)].name = "finished"

====
